---- MODULE Spec2Model ----
(***************************************************************************)
(* Model of rdiffbackup/actions/backup.py: the life cycle of one or two    *)
(* backup invocations (BackupAction.check, .setup, .run and the failed     *)
(* initial backup detection and repair) over a target repository that is   *)
(* kept as a small abstract filesystem.                                    *)
(*                                                                         *)
(* backup.py is a work-in-progress revision: run() and the tail of setup() *)
(* name rpin, rpout and _incdir where the object holds self.rp_in,         *)
(* self.rp_out and self.rp_incs_dir.  The model reads them as the source,  *)
(* the target and the increments location.  Everything backup.py calls but *)
(* does not define (the base action, RPath, Time, the mirroring and marker *)
(* collaborators) is modelled from the design document.                    *)
(***************************************************************************)
EXTENDS Integers, FiniteSets, Sequences, TLC

\* ---------------------------------------------------------------- bounds
MaxTime == 3        \* timestamps and the clock range over 1..MaxTime
MaxLogs == 2        \* at most this many error_log.* entries
MaxMeta == 2        \* at most this many mirror_metadata.* entries
MaxBase == 1        \* super().check() / super().setup() return 0..MaxBase

Procs == {1, 2}
Times == 1..MaxTime
BaseCodes == 0..MaxBase

VARIABLES fs, proc

vars == <<fs, proc>>

\* ------------------------------------------------------------ filesystem
\* src, tgt      : "absent" | "file" | "dir"  (lstat() and isdir())
\* tgtOther      : the target directory holds entries besides
\*                 rdiff-backup-data
\* mode          : permissions of the target, "0700" once chmod(0o700) ran
\* data          : rdiff-backup-data exists
\* markers       : times T of the entries current_mirror.T
\* errlogs, metas: number of error_log.* and mirror_metadata.* entries
\* misc          : the data directory holds other plain files
\* stray         : a sub-directory of the data directory besides increments
\* incs          : increments/ is "absent", "empty" (no file anywhere below
\*                 it) or holds "files"
Max(S) == CHOOSE x \in S : \A y \in S : y <= x

Min(S) == CHOOSE x \in S : \A y \in S : x <= y

NoData(f) ==
    [f EXCEPT !.data = FALSE, !.markers = {}, !.errlogs = 0, !.metas = 0,
              !.misc = FALSE, !.stray = FALSE, !.incs = "absent"]

NoTarget(f) ==
    [NoData(f) EXCEPT !.tgt = "absent", !.tgtOther = FALSE, !.mode = "none"]

\* Location.lstat(), Location.isdir(), Location.listdir() on the target
Lstat(kind) == kind # "absent"

IsDir(kind) == kind = "dir"

TargetListdirNonEmpty(f) == f.tgtOther \/ f.data

\* The part of the filesystem that lies at or below the target location.
TargetTree(f) ==
    [tgt |-> f.tgt, tgtOther |-> f.tgtOther, mode |-> f.mode, data |-> f.data,
     markers |-> f.markers, errlogs |-> f.errlogs, metas |-> f.metas,
     misc |-> f.misc, stray |-> f.stray, incs |-> f.incs]

\* The entries of the data directory and of increments/.
DataTree(f) ==
    [data |-> f.data, markers |-> f.markers, errlogs |-> f.errlogs,
     metas |-> f.metas, misc |-> f.misc, stray |-> f.stray, incs |-> f.incs]

IncsStates == {"absent", "empty", "files"}

\* The data directories an invocation may find.  Two markers at once are
\* left only by an interrupted incremental backup, which the model reaches
\* by itself.  Entries that are none of markers, error logs, metadata files
\* and increments are there together (x: another plain file and another
\* sub-directory) or not at all; the repair then leaves the sub-directory
\* alone.
DataStates ==
    { [data |-> TRUE, markers |-> mk, errlogs |-> e, metas |-> m, misc |-> x,
       stray |-> x, incs |-> i] :
        mk \in {S \in SUBSET Times : Cardinality(S) <= 1},
        e \in 0..MaxLogs, m \in 0..MaxMeta, x \in BOOLEAN,
        i \in IncsStates }

EmptyData ==
    [data |-> FALSE, markers |-> {}, errlogs |-> 0, metas |-> 0,
     misc |-> FALSE, stray |-> FALSE, incs |-> "absent"]

MkFs(s, t, o, md, d) ==
    [src |-> s, tgt |-> t, tgtOther |-> o, mode |-> md, data |-> d.data,
     markers |-> d.markers, errlogs |-> d.errlogs, metas |-> d.metas,
     misc |-> d.misc, stray |-> d.stray, incs |-> d.incs]

Kinds == {"absent", "file", "dir"}

FsStates ==
    { MkFs(s, "absent", FALSE, "none", EmptyData) : s \in Kinds }
    \cup { MkFs(s, "file", FALSE, "other", EmptyData) : s \in Kinds }
    \cup { MkFs(s, "dir", o, "other", EmptyData) : s \in Kinds, o \in BOOLEAN }
    \cup { MkFs(s, "dir", TRUE, "other", d) :
             s \in Kinds, d \in DataStates }

\* ------------------------------------------------------------------ time
\* _get_mirror_time(): the time of the newest current_mirror marker; 0, which
\* is before every timestamp and false in "if previous_time:", when there is
\* none.
GetMirrorTime(f) == IF f.markers = {} THEN 0 ELSE Max(f.markers)

\* ----------------------------------------------------------------- check
\* return_code |= 1
Or1(rc) == IF rc % 2 = 1 THEN rc ELSE rc + 1

\* backup.py 54-61
SourceProblem(f) == ~Lstat(f.src) \/ ~IsDir(f.src)

\* backup.py 64-65, the condition of the first target branch
DestNotDir(f) == Lstat(f.tgt) /\ ~IsDir(f.tgt)

\* backup.py 79-81, the condition of the second target branch
DestNonEmptyDir(f) ==
    ~DestNotDir(f) /\ Lstat(f.tgt) /\ IsDir(f.tgt) /\ TargetListdirNonEmpty(f)

\* backup.py 85-86
TimeProblem_gt(f, cur) == GetMirrorTime(f) > cur

TimeProblem(f, cur) == GetMirrorTime(f) >= cur

\* backup.py 64-105: whether the target checks add a bit to return_code
TargetProblem_noforce(f, force, cur) ==
    IF DestNotDir(f) THEN TRUE
    ELSE IF DestNonEmptyDir(f)
         THEN IF f.data THEN TimeProblem(f, cur) ELSE TRUE
         ELSE FALSE

TargetProblem(f, force, cur) ==
    IF DestNotDir(f) THEN ~force
    ELSE IF DestNonEmptyDir(f)
         THEN IF f.data THEN TimeProblem(f, cur) ELSE ~force
         ELSE FALSE

\* backup.py 47-107: the value check() returns
CheckReturnCode(base, f, force, cur) ==
    LET rc1 == IF SourceProblem(f) THEN Or1(base) ELSE base
    IN  IF TargetProblem(f, force, cur) THEN Or1(rc1) ELSE rc1

\* backup.py 54-105: the messages check() logs, as <<message, severity>>
SourceLog(f) ==
    IF ~Lstat(f.src) THEN {<<"source_missing", "ERROR">>}
    ELSE IF ~IsDir(f.src) THEN {<<"source_not_dir", "ERROR">>}
    ELSE {}

TargetLog(f, force, cur) ==
    IF DestNotDir(f)
    THEN IF force THEN {<<"dest_not_dir_force", "WARNING">>}
         ELSE {<<"dest_not_dir", "ERROR">>}
    ELSE IF DestNonEmptyDir(f)
         THEN IF f.data
              THEN IF TimeProblem(f, cur)
                   THEN {<<"last_backup_not_in_past", "ERROR">>}
                   ELSE {}
              ELSE IF force THEN {<<"not_a_repo_force", "WARNING">>}
                   ELSE {<<"not_a_repo", "ERROR">>}
         ELSE {}

CheckLog_shortCircuit(f, force, cur) ==
    IF SourceLog(f) # {} THEN SourceLog(f) ELSE TargetLog(f, force, cur)

CheckLog(f, force, cur) == SourceLog(f) \cup TargetLog(f, force, cur)

\* backup.py 124-126: the target after the forced delete, when it applies
AfterForceDelete(f, force) ==
    IF Lstat(f.tgt) /\ ~IsDir(f.tgt) /\ force THEN NoTarget(f) ELSE f

\* backup.py 47-107: check() calls lstat, isdir, listdir and the log only
FsAfterCheck_forceDelete(f, force) == AfterForceDelete(f, force)

FsAfterCheck(f, force) == f

\* ------------------------------------------------------------ invocation
\* One record per invocation: the position in check/setup/run (pc), the
\* options and clock it runs with, what super().check() (base) and check()
\* (rc) returned, how setup() or run() ended (retKind, ret), the messages the
\* phase in progress has logged, the collaborators run() has called, and the
\* filesystem as check, setup, the repair and run found it.  errAt is the
\* step of setup() whose filesystem call raised, madeData whether this
\* invocation created the data directory, afterCut whether the invocation
\* before it was killed after creating the data directory and before any
\* marker was written.
Running ==
    {"check", "setup", "setup_target", "setup_data", "fix", "fix_incs",
     "fix_files", "setup_incs", "setup_done", "run_prev", "inc_touch",
     "inc_mirror", "inc_remove", "full_mirror", "full_touch", "close"}

Terminal == {"rejected", "failed", "done", "dead"}

NoListing ==
    [markers |-> {}, errlogs |-> 0, metas |-> 0, misc |-> FALSE,
     incs |-> FALSE]

NewInvocation(f, force, cur) ==
    [pc |-> "check", force |-> force, cur |-> cur,
     base |-> 0, rc |-> 0, log |-> {}, calls |-> <<>>,
     retKind |-> "unset", ret |-> 0,
     listing |-> NoListing, prevtime |-> 0, again |-> FALSE,
     atCheck |-> f, atSetup |-> f, atFix |-> f, atRun |-> f,
     peerDone |-> FALSE, errAt |-> "none", madeData |-> FALSE,
     afterCut |-> FALSE]

Off(f) == [NewInvocation(f, FALSE, 1) EXCEPT !.pc = "off"]

Set(p, r) == proc' = [proc EXCEPT ![p] = r]

\* ----------------------------------------------------------------- check
\* BackupAction.check: reads the two locations, returns return_code and
\* leaves the filesystem alone.  The caller goes on to setup() only with a
\* zero verdict.
Check(p) ==
    /\ proc[p].pc = "check"
    /\ \E base \in BaseCodes :
         LET rc == CheckReturnCode(base, fs, proc[p].force, proc[p].cur)
         IN  Set(p, [proc[p] EXCEPT
                 !.pc = IF rc = 0 THEN "setup" ELSE "rejected",
                 !.rc = rc,
                 !.base = base,
                 !.log = CheckLog(fs, proc[p].force, proc[p].cur),
                 !.atCheck = fs,
                 !.peerDone = \E q \in Procs \ {p} : proc[q].pc = "done"])
    /\ fs' = FsAfterCheck(fs, proc[p].force)

\* ----------------------------------------------------------------- setup
\* backup.py 112-114: super().setup() and the early return
SetupBase(p) ==
    /\ proc[p].pc = "setup"
    /\ \E base \in BaseCodes :
         Set(p, [proc[p] EXCEPT
             !.pc = IF base # 0 THEN "failed" ELSE "setup_target",
             !.retKind = IF base # 0 THEN "int" ELSE "unset",
             !.ret = base,
             !.base = 0,
             !.log = {},
             !.atSetup = fs,
             !.atFix = fs])
    /\ UNCHANGED fs

\* backup.py 129-134: mkdir()/makedirs() of a missing target, then chmod
AfterCreate(f, chmodDone) ==
    IF ~Lstat(f.tgt)
    THEN [f EXCEPT !.tgt = "dir",
                   !.mode = IF chmodDone THEN "0700" ELSE "other"]
    ELSE f

\* backup.py 121-138.  err names the filesystem call that raises os.error:
\* the except clause then formats "{rp}" with positional arguments only,
\* which raises KeyError before "return 1" is reached.  fullPath is
\* create_full_path: makedirs() or mkdir(), the same to the target.
SetupTarget(p) ==
    /\ proc[p].pc = "setup_target"
    /\ \E err \in {"none", "delete", "create", "chmod"}, fullPath \in BOOLEAN :
         LET f1 == AfterForceDelete(fs, proc[p].force)
             f2 == AfterCreate(f1, TRUE)
         IN  /\ err = "delete" => f1 # fs
             /\ err \in {"create", "chmod"} => f2 # f1
             /\ fs' = CASE err = "none" -> f2
                        [] err = "delete" -> fs
                        [] err = "create" -> f1
                        [] err = "chmod" -> AfterCreate(f1, FALSE)
             /\ Set(p, [proc[p] EXCEPT
                    !.pc = IF err = "none" THEN "setup_data" ELSE "failed",
                    !.errAt = IF err = "none" THEN @ ELSE "target",
                    !.retKind = IF err = "none" THEN "unset" ELSE "KeyError"])

\* backup.py 191-209
IsFailedInitialBackup_noMarkerTest(f) ==
    IF f.data THEN f.errlogs <= 1 /\ f.metas <= 1 ELSE FALSE

IsFailedInitialBackup_emptyIncrements(f) ==
    IF f.data
    THEN f.markers = {} /\ f.errlogs <= 1 /\ f.metas <= 1
         /\ f.incs # "files"
    ELSE FALSE

IsFailedInitialBackup_strict(f) ==
    IF f.data
    THEN f.markers = {} /\ f.errlogs < 1 /\ f.metas < 1
    ELSE FALSE

IsFailedInitialBackup(f) ==
    IF f.data
    THEN f.markers = {} /\ f.errlogs <= 1 /\ f.metas <= 1
    ELSE FALSE

\* backup.py 141-154.  mkdir of the data directory raises when asked to
\* (ok = FALSE) or when the target is not a directory.
SetupDataDir(p) ==
    /\ proc[p].pc = "setup_data"
    /\ IF ~fs.data
       THEN \E ok \in BOOLEAN :
              IF ok /\ IsDir(fs.tgt)
              THEN /\ fs' = [fs EXCEPT !.data = TRUE]
                   /\ Set(p, [proc[p] EXCEPT !.pc = "setup_incs",
                                             !.madeData = TRUE])
              ELSE /\ fs' = fs
                   /\ Set(p, [proc[p] EXCEPT
                          !.pc = "failed", !.retKind = "int", !.ret = 1,
                          !.errAt = "data",
                          !.log = @ \cup {<<"no_data_dir", "DEFAULT">>}])
       ELSE /\ fs' = fs
            /\ Set(p, [proc[p] EXCEPT
                   !.pc = IF IsFailedInitialBackup(fs) THEN "fix"
                          ELSE "setup_incs"])

\* ---------------------------------------------------------------- repair
\* rp_dir.listdir() at backup.py 219: the plain files, and whether the name
\* increments is listed
Listing(f) ==
    [markers |-> f.markers, errlogs |-> f.errlogs, metas |-> f.metas,
     misc |-> f.misc, incs |-> f.incs # "absent"]

Minus(a, b) == IF a >= b THEN a - b ELSE 0

\* backup.py 216-222: announce the repair, list the data directory and look
\* for increments in the listing
FixStart(p) ==
    /\ proc[p].pc = "fix"
    /\ Set(p, [proc[p] EXCEPT
           !.pc = IF Listing(fs).incs THEN "fix_incs" ELSE "fix_files",
           !.log = @ \cup {<<"found_interrupted_initial_backup", "DEFAULT">>},
           !.listing = Listing(fs),
           !.atFix = fs])
    /\ UNCHANGED fs

\* rpath.delete_dir_no_files on increments/: refused by the connection with
\* Security.Violation, an assertion failure when it is no directory,
\* RPathException when it holds files, else the directory is deleted
DirHasFiles(f) == f.incs = "files"

DeleteDirNoFiles(f, violation) ==
    IF violation THEN "Violation"
    ELSE IF f.incs = "absent" THEN "AssertionError"
    ELSE IF DirHasFiles(f) THEN "RPathException"
    ELSE "deleted"

\* backup.py 228-235: where the repair goes after the delete: both handlers
\* return from the repair, an assertion failure leaves setup()
AfterIncsDelete_noReturn(outcome) ==
    CASE outcome = "deleted" -> "fix_files"
      [] outcome = "RPathException" -> "fix_files"
      [] outcome = "Violation" -> "setup_incs"
      [] outcome = "AssertionError" -> "failed"

AfterIncsDelete_violationGoesOn(outcome) ==
    CASE outcome = "deleted" -> "fix_files"
      [] outcome = "RPathException" -> "setup_incs"
      [] outcome = "Violation" -> "fix_files"
      [] outcome = "AssertionError" -> "failed"

AfterIncsDelete(outcome) ==
    CASE outcome = "deleted" -> "fix_files"
      [] outcome = "RPathException" -> "setup_incs"
      [] outcome = "Violation" -> "setup_incs"
      [] outcome = "AssertionError" -> "failed"

\* backup.py 231, 234: what the handlers log
IncsDeleteLog(outcome) ==
    CASE outcome = "RPathException"
           -> {<<"increments_contains_files", "INFO">>}
      [] outcome = "Violation" -> {<<"no_resuming", "WARNING">>}
      [] OTHER -> {}

\* backup.py 223-235: violation is whether the connection refuses the call
FixDeleteIncs(p) ==
    /\ proc[p].pc = "fix_incs"
    /\ \E violation \in BOOLEAN :
         LET outcome == DeleteDirNoFiles(fs, violation)
         IN  /\ fs' = IF outcome = "deleted"
                      THEN [fs EXCEPT !.incs = "absent"] ELSE fs
             /\ Set(p, [proc[p] EXCEPT
                    !.pc = AfterIncsDelete(outcome),
                    !.retKind = IF outcome = "AssertionError"
                                THEN outcome ELSE @,
                    !.log = @ \cup IncsDeleteLog(outcome)])

\* backup.py 238-241: delete the listed entries that are not directories
AfterDeleteFiles_keepMetadata(f, l) ==
    [f EXCEPT !.markers = f.markers \ l.markers,
              !.errlogs = Minus(f.errlogs, l.errlogs),
              !.misc = f.misc /\ ~l.misc]

AfterDeleteFiles_alsoDirectories(f, l) ==
    [f EXCEPT !.markers = f.markers \ l.markers,
              !.errlogs = Minus(f.errlogs, l.errlogs),
              !.metas = Minus(f.metas, l.metas),
              !.misc = f.misc /\ ~l.misc,
              !.stray = FALSE]

AfterDeleteFiles(f, l) ==
    [f EXCEPT !.markers = f.markers \ l.markers,
              !.errlogs = Minus(f.errlogs, l.errlogs),
              !.metas = Minus(f.metas, l.metas),
              !.misc = f.misc /\ ~l.misc]

FixDeleteFiles(p) ==
    /\ proc[p].pc = "fix_files"
    /\ fs' = AfterDeleteFiles(fs, proc[p].listing)
    /\ Set(p, [proc[p] EXCEPT !.pc = "setup_incs"])

\* backup.py 155: "if not self.rp_incs_dir.lstat():", whatever the data
\* directory step did
IncsDirMissing_never(f) == FALSE

IncsDirMissing(f) == f.incs = "absent"

\* backup.py 155-175: create increments/ when it is missing, then the
\* closing calls, none of which touches the repository structure; setup()
\* ends without a return statement.
SetupIncsDir(p) ==
    /\ proc[p].pc = "setup_incs"
    /\ IF IncsDirMissing(fs)
       THEN \E ok \in BOOLEAN :
              IF ok /\ fs.data
              THEN /\ fs' = [fs EXCEPT !.incs = "empty"]
                   /\ Set(p, [proc[p] EXCEPT
                          !.pc = "setup_done", !.retKind = "None"])
              ELSE /\ fs' = fs
                   /\ Set(p, [proc[p] EXCEPT
                          !.pc = "failed", !.retKind = "int", !.ret = 1,
                          !.errAt = "incs",
                          !.log = @ \cup {<<"no_increments_dir", "DEFAULT">>}])
       ELSE /\ fs' = fs
            /\ Set(p, [proc[p] EXCEPT !.pc = "setup_done", !.retKind = "None"])

\* The caller calls setup() a second time on the same action object.
SetupAgain(p) ==
    /\ proc[p].pc = "setup_done"
    /\ ~proc[p].again
    /\ Set(p, [proc[p] EXCEPT !.pc = "setup", !.again = TRUE,
                              !.retKind = "unset"])
    /\ UNCHANGED fs

\* ------------------------------------------------------------------- run
Call(name, incdir) == [fn |-> name, incdir |-> incdir]

\* _checkdest_if_necessary: two markers mean an unfinished later backup,
\* which is regressed to the older one
AfterCheckDest(f) ==
    IF Cardinality(f.markers) >= 2
    THEN [f EXCEPT !.markers = {Min(f.markers)}]
    ELSE f

\* backup.py 179.  run() starts with a fresh record of the invocation: what
\* check() and setup() found and logged is not read again.
RunCheckDest(p) ==
    /\ proc[p].pc = "setup_done"
    /\ fs' = AfterCheckDest(fs)
    /\ Set(p, [NewInvocation(fs, proc[p].force, proc[p].cur) EXCEPT
           !.pc = "run_prev",
           !.madeData = proc[p].madeData,
           !.afterCut = proc[p].afterCut])

\* backup.py 181: "if previous_time:"
HasPrevious_never(t) == FALSE

HasPrevious_always(t) == TRUE

HasPrevious(t) == t # 0

\* backup.py 180-182: read the previous mirror time and branch;
\* Time.setprevtime on the incremental branch
RunGetMirrorTime(p) ==
    /\ proc[p].pc = "run_prev"
    /\ LET t == GetMirrorTime(fs)
       IN  IF HasPrevious(t)
           THEN Set(p, [proc[p] EXCEPT
                    !.pc = "inc_touch", !.prevtime = t,
                    !.calls = Append(@, Call("setprevtime", FALSE))])
           ELSE Set(p, [proc[p] EXCEPT !.pc = "full_mirror"])
    /\ UNCHANGED fs

\* backup_touch_curmirror_local: write current_mirror.<curtime>
AfterTouch(f, cur) == [f EXCEPT !.markers = @ \cup {cur}]

\* backup_remove_curmirror_local: remove the older marker
AfterRemove(f) ==
    IF f.markers = {} THEN f ELSE [f EXCEPT !.markers = {Max(f.markers)}]

\* What a mirroring collaborator may leave in the repository: mirror
\* content in the target, e more error logs, m more metadata files and, on
\* the incremental path (n), increment files.
AfterMirror(f, e, m, n) ==
    [f EXCEPT !.tgtOther = TRUE,
              !.errlogs = IF f.data THEN @ + e ELSE @,
              !.metas = IF f.data THEN @ + m ELSE @,
              !.incs = IF n /\ @ # "absent" THEN "files" ELSE @]

\* backup.py 183-189: the statement of run() that follows each statement
NextRunStep_removeBeforeMirror(pc) ==
    CASE pc = "inc_touch" -> "inc_remove"
      [] pc = "inc_remove" -> "inc_mirror"
      [] pc = "inc_mirror" -> "close"
      [] pc = "full_mirror" -> "full_touch"
      [] pc = "full_touch" -> "close"
      [] pc = "close" -> "done"

NextRunStep(pc) ==
    CASE pc = "inc_touch" -> "inc_mirror"
      [] pc = "inc_mirror" -> "inc_remove"
      [] pc = "inc_remove" -> "close"
      [] pc = "full_mirror" -> "full_touch"
      [] pc = "full_touch" -> "close"
      [] pc = "close" -> "done"

\* backup.py 184, 187: run() has no try around the mirroring call, so an
\* error of the collaborator leaves run()
AfterMirrorCall_ignoreError(pc, ok) == NextRunStep(pc)

AfterMirrorCall(pc, ok) == IF ok THEN NextRunStep(pc) ELSE "failed"

\* backup.py 183
IncTouch(p) ==
    /\ proc[p].pc = "inc_touch"
    /\ fs' = AfterTouch(fs, proc[p].cur)
    /\ Set(p, [proc[p] EXCEPT
           !.pc = NextRunStep("inc_touch"),
           !.calls = Append(@, Call("touch_curmirror", FALSE))])

\* backup.py 184; ok = FALSE is the collaborator raising
IncMirror(p) ==
    /\ proc[p].pc = "inc_mirror"
    /\ \E ok \in BOOLEAN, e \in 0..1, m \in 0..1, n \in BOOLEAN :
         /\ fs.errlogs + e <= MaxLogs
         /\ fs.metas + m <= MaxMeta
         /\ fs' = AfterMirror(fs, e, m, n)
         /\ Set(p, [proc[p] EXCEPT
                !.pc = AfterMirrorCall("inc_mirror", ok),
                !.retKind = IF ok THEN "unset" ELSE "MirrorError",
                !.calls = Append(@, Call("Mirror_and_increment", TRUE))])

\* backup.py 185
IncRemove(p) ==
    /\ proc[p].pc = "inc_remove"
    /\ fs' = AfterRemove(fs)
    /\ Set(p, [proc[p] EXCEPT
           !.pc = NextRunStep("inc_remove"),
           !.calls = Append(@, Call("remove_curmirror", FALSE))])

\* backup.py 187
FullMirror(p) ==
    /\ proc[p].pc = "full_mirror"
    /\ \E ok \in BOOLEAN, e \in 0..1, m \in 0..1 :
         /\ fs.errlogs + e <= MaxLogs
         /\ fs.metas + m <= MaxMeta
         /\ fs' = AfterMirror(fs, e, m, FALSE)
         /\ Set(p, [proc[p] EXCEPT
                !.pc = AfterMirrorCall("full_mirror", ok),
                !.retKind = IF ok THEN "unset" ELSE "MirrorError",
                !.calls = Append(@, Call("Mirror", FALSE))])

\* backup.py 188
FullTouch(p) ==
    /\ proc[p].pc = "full_touch"
    /\ fs' = AfterTouch(fs, proc[p].cur)
    /\ Set(p, [proc[p] EXCEPT
           !.pc = NextRunStep("full_touch"),
           !.calls = Append(@, Call("touch_curmirror", FALSE))])

\* backup.py 189; run() ends without a return statement
CloseStatistics(p) ==
    /\ proc[p].pc = "close"
    /\ Set(p, [proc[p] EXCEPT
           !.pc = NextRunStep("close"), !.retKind = "None",
           !.calls = Append(@, Call("close_statistics", FALSE))])
    /\ UNCHANGED fs

\* ----------------------------------------------------------- environment
\* The process is killed between two steps, once setup() is under way.
Interrupt(p) ==
    /\ proc[p].pc \in Running \ {"check", "setup"}
    /\ Set(p, [NewInvocation(fs, proc[p].force, proc[p].cur) EXCEPT
           !.pc = "dead",
           !.madeData = proc[p].madeData])
    /\ UNCHANGED fs

\* The operator starts the next invocation on the same repository, with its
\* own options; the clock has not gone back.
Restart(p) ==
    /\ proc[p].pc \in Terminal
    /\ \E force \in BOOLEAN, cur \in Times :
         /\ cur >= proc[p].cur
         /\ Set(p, [NewInvocation(fs, force, cur) EXCEPT
                !.afterCut = /\ proc[p].pc = "dead"
                             /\ proc[p].madeData
                             /\ fs.markers = {}])
    /\ UNCHANGED fs

Step(p) ==
    \/ Check(p)
    \/ SetupBase(p)
    \/ SetupTarget(p)
    \/ SetupDataDir(p)
    \/ FixStart(p)
    \/ FixDeleteIncs(p)
    \/ FixDeleteFiles(p)
    \/ SetupIncsDir(p)
    \/ SetupAgain(p)
    \/ RunCheckDest(p)
    \/ RunGetMirrorTime(p)
    \/ IncTouch(p)
    \/ IncMirror(p)
    \/ IncRemove(p)
    \/ FullMirror(p)
    \/ FullTouch(p)
    \/ CloseStatistics(p)
    \/ Interrupt(p)

\* One invocation after the other on any repository.
Init ==
    /\ fs \in FsStates
    /\ \E force \in BOOLEAN, cur \in Times :
         proc = [p \in Procs |->
                   IF p = 1 THEN NewInvocation(fs, force, cur) ELSE Off(fs)]

Next == Step(1) \/ Restart(1)

Spec == Init /\ [][Next]_vars

\* Two invocations started on the same repository with the same current
\* time, their steps interleaved in every order.
Phases(p) ==
    \/ Check(p)
    \/ SetupBase(p)
    \/ SetupTarget(p)
    \/ SetupDataDir(p)
    \/ FixStart(p)
    \/ FixDeleteIncs(p)
    \/ FixDeleteFiles(p)
    \/ SetupIncsDir(p)
    \/ RunCheckDest(p)
    \/ RunGetMirrorTime(p)
    \/ IncTouch(p)
    \/ IncMirror(p)
    \/ IncRemove(p)
    \/ FullMirror(p)
    \/ FullTouch(p)
    \/ CloseStatistics(p)

InitTwo ==
    /\ fs \in {f \in FsStates : f.src = "dir" /\ ~f.stray /\ ~f.misc}
    /\ \E force \in BOOLEAN, cur \in Times :
         proc = [p \in Procs |-> NewInvocation(fs, force, cur)]

NextTwo == \E p \in Procs : Phases(p)

SpecTwo == InitTwo /\ [][NextTwo]_vars

\* ================================================================ claims
\* check() has returned for p and nothing has run since.
Checked(p) == proc[p].pc \in {"rejected", "setup"} /\ ~proc[p].again

Severities(p) == {m[2] : m \in proc[p].log}

\* ---------------------------------------------------------------------
\* C1: when the source does not exist or is not a directory, check returns
\* a non-zero verdict and the target location and everything below it is
\* the same after check as before it, for every target and both values of
\* force.
C1_BadSourceRejectedTargetUntouched ==
    \A p \in Procs :
        (Checked(p) /\ proc[p].atCheck.src # "dir")
            => /\ proc[p].rc # 0
               /\ proc[p].pc = "rejected"
               /\ TargetTree(fs) = TargetTree(proc[p].atCheck)

C1_Witness ==
    /\ proc[1].pc = "rejected"
    /\ proc[1].atCheck.src = "file"
    /\ proc[1].atCheck.tgt = "file"
    /\ proc[1].force

\* ---------------------------------------------------------------------
\* C2: for a target that is a non-empty directory without a data directory,
\* check sets a bit of the verdict and logs at ERROR when force is not set;
\* with force it logs at WARNING, not at ERROR, and adds nothing to the
\* verdict, which with a good source is what the base check returned.
NonRepoTarget(f) == f.tgt = "dir" /\ f.tgtOther /\ ~f.data

C2_NonRepoTargetNeedsForce ==
    \A p \in Procs :
        (Checked(p) /\ NonRepoTarget(proc[p].atCheck))
            => IF proc[p].force
               THEN /\ <<"not_a_repo_force", "WARNING">> \in proc[p].log
                    /\ <<"not_a_repo", "ERROR">> \notin proc[p].log
                    /\ proc[p].atCheck.src = "dir"
                         => /\ proc[p].rc = proc[p].base
                            /\ "ERROR" \notin Severities(p)
               ELSE /\ <<"not_a_repo", "ERROR">> \in proc[p].log
                    /\ "WARNING" \notin Severities(p)
                    /\ proc[p].rc % 2 = 1

C2_Witness ==
    /\ proc[1].pc = "setup"
    /\ NonRepoTarget(proc[1].atCheck)
    /\ proc[1].force
    /\ proc[1].rc = 0

\* ---------------------------------------------------------------------
\* C3: when the data directory records a previous mirror time that is not
\* before the current time, check returns a non-zero verdict, with and
\* without force and for every source.
NotInPast(f, cur) == f.data /\ \E t \in f.markers : t >= cur

C3_LastBackupNotInPastRejected ==
    \A p \in Procs :
        (Checked(p) /\ NotInPast(proc[p].atCheck, proc[p].cur))
            => /\ proc[p].rc # 0
               /\ proc[p].pc = "rejected"

C3_Witness ==
    /\ proc[1].pc = "rejected"
    /\ proc[1].atCheck.src = "dir"
    /\ proc[1].force
    /\ proc[1].base = 0
    /\ proc[1].atCheck.markers = {proc[1].cur}

\* ---------------------------------------------------------------------
\* C4: check accumulates: a source problem and a target problem found in
\* the same call are both logged at ERROR, every problem is OR-ed into the
\* verdict, and the verdict is zero exactly when the base check and all
\* four checks passed.
SourceBad(f) == f.src # "dir"

TargetNotDirNoForce(f, force) == f.tgt = "file" /\ ~force

NonRepoNoForce(f, force) == NonRepoTarget(f) /\ ~force

AnyProblem(f, force, cur) ==
    \/ SourceBad(f)
    \/ TargetNotDirNoForce(f, force)
    \/ NonRepoNoForce(f, force)
    \/ NotInPast(f, cur)

SourceErrors == {<<"source_missing", "ERROR">>, <<"source_not_dir", "ERROR">>}

TargetErrors ==
    {<<"dest_not_dir", "ERROR">>, <<"not_a_repo", "ERROR">>,
     <<"last_backup_not_in_past", "ERROR">>}

C4_CheckAccumulates ==
    \A p \in Procs :
        Checked(p) =>
            LET f == proc[p].atCheck
                force == proc[p].force
                cur == proc[p].cur
                targetBad == \/ TargetNotDirNoForce(f, force)
                             \/ NonRepoNoForce(f, force)
                             \/ NotInPast(f, cur)
            IN  /\ proc[p].rc = 0
                     <=> (proc[p].base = 0 /\ ~AnyProblem(f, force, cur))
                /\ proc[p].rc = IF AnyProblem(f, force, cur)
                                THEN Or1(proc[p].base) ELSE proc[p].base
                /\ SourceBad(f) <=> proc[p].log \cap SourceErrors # {}
                /\ targetBad <=> proc[p].log \cap TargetErrors # {}

C4_Witness ==
    /\ proc[1].pc = "rejected"
    /\ proc[1].atCheck.src = "absent"
    /\ NotInPast(proc[1].atCheck, proc[1].cur)
    /\ proc[1].log \cap SourceErrors # {}
    /\ proc[1].log \cap TargetErrors # {}

\* ---------------------------------------------------------------------
\* C5 as stated: of two invocations started on the same repository with
\* the same current time, check rejects one in every interleaving, so the
\* two never both call a mirroring collaborator.
Mirrored(p) ==
    \E i \in DOMAIN proc[p].calls :
        proc[p].calls[i].fn \in {"Mirror", "Mirror_and_increment"}

C5_NeverBothMirror == ~(Mirrored(1) /\ Mirrored(2))

\* C5 amended: an invocation whose check runs after the other invocation,
\* started with the same current time, has completed its run is rejected by
\* check and goes no further.
C5_RejectedAfterPeerCompleted ==
    \A p \in Procs :
        proc[p].peerDone
            => /\ proc[p].pc = "rejected"
               /\ proc[p].rc # 0
               /\ ~Mirrored(p)

C5_Witness ==
    /\ proc[2].peerDone
    /\ proc[1].pc = "done"
    /\ Mirrored(1)
    /\ proc[2].base = 0
    /\ proc[1].cur = proc[2].cur

\* ---------------------------------------------------------------------
\* The repair has run for p and setup() is about to go on to increments/.
RepairOver(p) ==
    /\ proc[p].pc = "setup_incs"
    /\ <<"found_interrupted_initial_backup", "DEFAULT">> \in proc[p].log

Refused(p) == <<"no_resuming", "WARNING">> \in proc[p].log

DataDirEmpty(f) ==
    /\ f.data
    /\ f.markers = {}
    /\ f.errlogs = 0
    /\ f.metas = 0
    /\ ~f.misc
    /\ ~f.stray
    /\ f.incs = "absent"

\* no marker, one error log, one metadata file, nothing else, and an empty
\* increments directory
OneLogOneMetaEmptyIncs(f) ==
    /\ f.data
    /\ f.markers = {}
    /\ f.errlogs = 1
    /\ f.metas = 1
    /\ ~f.misc
    /\ ~f.stray
    /\ f.incs = "empty"

\* C6 as stated: from a data directory with no marker, one error log, one
\* metadata file and an empty increments directory, the repair deletes
\* increments, then the two files, and leaves the data directory empty.
C6_RepairEmptiesDataDir ==
    \A p \in Procs :
        (RepairOver(p) /\ OneLogOneMetaEmptyIncs(proc[p].atFix))
            => DataDirEmpty(fs)

\* C6 amended: the same, unless the delete of increments is refused with a
\* security violation, in which case nothing is deleted.  Before the delete
\* of increments nothing is gone; after it the two files are still there;
\* after the file deletes the data directory is empty.
C6_RepairDeletesIncrementsThenFiles ==
    \A p \in Procs :
        OneLogOneMetaEmptyIncs(proc[p].atFix) =>
            /\ proc[p].pc = "fix_incs"
                 => DataTree(fs) = DataTree(proc[p].atFix)
            /\ proc[p].pc = "fix_files"
                 => /\ fs.incs = "absent"
                    /\ fs.errlogs = 1
                    /\ fs.metas = 1
            /\ (RepairOver(p) /\ ~Refused(p)) => DataDirEmpty(fs)
            /\ (RepairOver(p) /\ Refused(p))
                 => DataTree(fs) = DataTree(proc[p].atFix)

C6_Witness ==
    /\ RepairOver(1)
    /\ OneLogOneMetaEmptyIncs(proc[1].atFix)
    /\ DataDirEmpty(fs)

\* ---------------------------------------------------------------------
\* no marker, one error log, one metadata file, and files below increments
OneLogOneMetaFilesInIncs(f) ==
    /\ f.data
    /\ f.markers = {}
    /\ f.errlogs = 1
    /\ f.metas = 1
    /\ f.incs = "files"

\* C7 as stated: from a failed initial backup whose increments directory
\* holds a file, the repair leaves every entry of the data directory and of
\* increments untouched and every message it logs is at INFO.
C7_UntouchedAndOnlyInfo ==
    \A p \in Procs :
        (RepairOver(p) /\ OneLogOneMetaFilesInIncs(proc[p].atFix))
            => /\ DataTree(fs) = DataTree(proc[p].atFix)
               /\ Severities(p) = {"INFO"}

\* C7 amended: the repair leaves every entry untouched; it logs the
\* announcement of the repair at DEFAULT and then one message about giving
\* up: at INFO that increments holds files, or at WARNING when the delete
\* was refused with a security violation.
C7_UntouchedAnnouncedThenInfo ==
    \A p \in Procs :
        OneLogOneMetaFilesInIncs(proc[p].atFix) =>
            /\ proc[p].pc # "fix_files"
            /\ proc[p].pc = "fix_incs"
                 => DataTree(fs) = DataTree(proc[p].atFix)
            /\ RepairOver(p)
                 => /\ DataTree(fs) = DataTree(proc[p].atFix)
                    /\ \/ proc[p].log =
                            {<<"found_interrupted_initial_backup", "DEFAULT">>,
                             <<"increments_contains_files", "INFO">>}
                       \/ proc[p].log =
                            {<<"found_interrupted_initial_backup", "DEFAULT">>,
                             <<"no_resuming", "WARNING">>}

C7_Witness ==
    /\ RepairOver(1)
    /\ OneLogOneMetaFilesInIncs(proc[1].atFix)
    /\ <<"increments_contains_files", "INFO">> \in proc[1].log

\* ---------------------------------------------------------------------
Called(p, name) == \E i \in DOMAIN proc[p].calls : proc[p].calls[i].fn = name

\* C8: when the repository records a previous mirror time as run() starts,
\* run() calls Mirror_and_increment with the increments location and never
\* calls Mirror.
C8_PreviousTimeMeansIncremental ==
    \A p \in Procs :
        proc[p].atRun.markers # {} =>
            /\ ~Called(p, "Mirror")
            /\ proc[p].pc \in {"inc_remove", "close", "done"}
                 => \E i \in DOMAIN proc[p].calls :
                        proc[p].calls[i] = Call("Mirror_and_increment", TRUE)

C8_Witness ==
    /\ proc[1].pc = "done"
    /\ proc[1].atRun.markers # {}
    /\ Called(1, "Mirror_and_increment")

\* ---------------------------------------------------------------------
\* C9: when the repository records no previous mirror time as run() starts,
\* run() calls Mirror, never calls Mirror_and_increment and hands no
\* collaborator the increments location.
C9_NoPreviousTimeMeansFullMirror ==
    \A p \in Procs :
        proc[p].atRun.markers = {} =>
            /\ ~Called(p, "Mirror_and_increment")
            /\ \A i \in DOMAIN proc[p].calls : ~proc[p].calls[i].incdir
            /\ proc[p].pc \in {"full_touch", "close", "done"}
                 => Called(p, "Mirror")

C9_Witness ==
    /\ proc[1].pc = "done"
    /\ proc[1].atRun.markers = {}
    /\ Called(1, "Mirror")

\* ---------------------------------------------------------------------
SetupPcs ==
    {"setup_target", "setup_data", "fix", "fix_incs", "fix_files",
     "setup_incs", "setup_done"}

ValidRepository(f) ==
    f.tgt = "dir" /\ f.data /\ f.markers # {} /\ f.incs # "absent"

\* C10: on a target directory whose data directory holds a current-mirror
\* marker and whose increments directory exists, setup(), the first time
\* and the second, creates and deletes nothing and changes no permissions:
\* at every step and at its end the target tree is as setup() found it, and
\* the repair is never entered.
C10_SetupIdempotentOnValidRepository ==
    \A p \in Procs :
        (proc[p].pc \in SetupPcs /\ ValidRepository(proc[p].atSetup))
            => /\ TargetTree(fs) = TargetTree(proc[p].atSetup)
               /\ proc[p].pc \notin {"fix", "fix_incs", "fix_files"}

C10_Witness ==
    /\ proc[1].pc = "setup_done"
    /\ proc[1].again
    /\ ValidRepository(proc[1].atSetup)
    /\ proc[1].atSetup.errlogs <= 1
    /\ proc[1].atSetup.metas <= 1

\* ---------------------------------------------------------------------
\* C11: the status an invocation returns is non-zero whenever check found a
\* validation problem or setup hit a fatal initialization error, and zero
\* when a phase succeeded: setup that succeeded has returned the integer
\* zero, and run that succeeded has returned the integer zero, after
\* close_statistics was called.
C11_StatusReflectsOutcome ==
    \A p \in Procs :
        /\ proc[p].pc = "rejected" => proc[p].rc # 0
        /\ proc[p].errAt # "none"
             => /\ proc[p].pc = "failed"
                /\ proc[p].retKind # "None"
                /\ ~(proc[p].retKind = "int" /\ proc[p].ret = 0)
        /\ proc[p].pc = "setup_done"
             => (proc[p].retKind = "int" /\ proc[p].ret = 0)
        /\ proc[p].pc = "done"
             => /\ proc[p].retKind = "int"
                /\ proc[p].ret = 0
                /\ Called(p, "close_statistics")

\* ---------------------------------------------------------------------
Announced(p) ==
    <<"found_interrupted_initial_backup", "DEFAULT">> \in proc[p].log

NoLeftovers(f) == f.markers = {} /\ f.errlogs = 0 /\ f.metas = 0 /\ ~f.misc

RunPcs ==
    {"run_prev", "inc_touch", "inc_mirror", "inc_remove", "full_mirror",
     "full_touch", "close", "done"}

\* The run of an invocation takes the full-mirror path: it is never at a
\* statement of the incremental branch, never calls Mirror_and_increment,
\* and has called Mirror once it is past the mirroring.
OnFullPath(p) ==
    /\ proc[p].pc \notin {"inc_touch", "inc_mirror", "inc_remove"}
    /\ ~Called(p, "Mirror_and_increment")
    /\ proc[p].pc \in {"full_touch", "close", "done"} => Called(p, "Mirror")

\* C12 as stated: the invocation that follows one killed after creating the
\* data directory and before writing a marker classifies the data directory
\* as a failed initial backup in setup(), has deleted the leftover files
\* when the repair is over, and takes the full-mirror path in run().
C12_InterruptedFirstBackupRepaired ==
    \A p \in Procs :
        proc[p].afterCut =>
            /\ proc[p].pc \in {"setup_incs", "setup_done"} => Announced(p)
            /\ RepairOver(p) => NoLeftovers(fs)
            /\ proc[p].pc \in RunPcs => OnFullPath(p)

\* C12 amended: the same, except that the leftover files are deleted only
\* when the delete of increments is not refused with a security violation;
\* when it is refused the data directory is left as the repair found it,
\* and run() takes the full-mirror path all the same.
C12_InterruptedFirstBackupClassified ==
    \A p \in Procs :
        proc[p].afterCut =>
            /\ proc[p].pc \in {"setup_incs", "setup_done"} => Announced(p)
            /\ (RepairOver(p) /\ ~Refused(p))
                 => (NoLeftovers(fs) /\ fs.incs = "absent")
            /\ (RepairOver(p) /\ Refused(p))
                 => DataTree(fs) = DataTree(proc[p].atFix)
            /\ proc[p].pc \in RunPcs => OnFullPath(p)

C12_Witness ==
    /\ proc[1].afterCut
    /\ RepairOver(1)
    /\ proc[1].atFix.errlogs = 1
    /\ proc[1].atFix.metas = 1
    /\ NoLeftovers(fs)

\* ---------------------------------------------------------------------
\* The collaborator calls of the two branches of run(), in order.
IncrementalCalls ==
    <<Call("setprevtime", FALSE), Call("touch_curmirror", FALSE),
      Call("Mirror_and_increment", TRUE), Call("remove_curmirror", FALSE),
      Call("close_statistics", FALSE)>>

FullCalls ==
    <<Call("Mirror", FALSE), Call("touch_curmirror", FALSE),
      Call("close_statistics", FALSE)>>

IsPrefix(s, t) ==
    /\ Len(s) <= Len(t)
    /\ \A i \in 1..Len(s) : s[i] = t[i]

\* C13: on the incremental path run() records the previous time, then
\* writes the marker of the current time, then calls Mirror_and_increment,
\* and removes the older marker only after Mirror_and_increment: until the
\* remove the marker of the previous time is there, from the touch on the
\* marker of the current time is there.  On the full path the marker is
\* written only after Mirror: until then the data directory holds none.
C13_MarkerBracketsMirror ==
    \A p \in Procs :
        LET c == proc[p].calls IN
        /\ IsPrefix(c, IncrementalCalls) \/ IsPrefix(c, FullCalls)
        /\ (c # <<>> /\ c[1].fn = "setprevtime")
             => /\ proc[p].prevtime # 0
                /\ Len(c) <= 3 => proc[p].prevtime \in fs.markers
                /\ Len(c) >= 2 => proc[p].cur \in fs.markers
                /\ Len(c) >= 4 => fs.markers = {proc[p].cur}
        /\ (c # <<>> /\ c[1].fn = "Mirror")
             => /\ Len(c) = 1 => fs.markers = {}
                /\ Len(c) >= 2 => fs.markers = {proc[p].cur}
        /\ proc[p].pc = "full_mirror" => fs.markers = {}

C13_Witness ==
    /\ proc[1].pc = "done"
    /\ proc[1].calls = IncrementalCalls
    /\ fs.markers = {proc[1].cur}

\* ---------------------------------------------------------------------
MirrorCalls(p) ==
    {i \in DOMAIN proc[p].calls :
        proc[p].calls[i].fn \in {"Mirror", "Mirror_and_increment"}}

\* C14: once the mirroring collaborator has failed, run() is over: the
\* failing call is the last call of the invocation and its only mirroring
\* call; on the full path no marker has been written, on the incremental
\* path the marker of the current time, written before the mirroring, and
\* the marker of the previous time are both still there.
C14_MirrorFailureEndsRun ==
    \A p \in Procs :
        proc[p].retKind = "MirrorError" =>
            /\ proc[p].pc = "failed"
            /\ Cardinality(MirrorCalls(p)) = 1
            /\ Len(proc[p].calls) \in MirrorCalls(p)
            /\ Called(p, "Mirror") => fs.markers = {}
            /\ Called(p, "Mirror_and_increment")
                 => fs.markers = {proc[p].prevtime, proc[p].cur}

C14_Witness ==
    /\ proc[1].retKind = "MirrorError"
    /\ Called(1, "Mirror_and_increment")
    /\ Cardinality(fs.markers) = 2

\* ---------------------------------------------------------------------
\* The repair has been entered in this run of setup().
InRepair(p) == proc[p].pc \in {"fix", "fix_incs", "fix_files"} \/ Announced(p)

\* No entry named current_mirror*, at most one named error_log* and at most
\* one named mirror_metadata* in an existing data directory.
LooksFailedInitial(f) ==
    f.data /\ f.markers = {} /\ f.errlogs <= 1 /\ f.metas <= 1

C16_SetupFailsFast ==
    \A p \in Procs :
        /\ proc[p].errAt = "target"
             => /\ proc[p].pc = "failed"
                /\ proc[p].retKind = "int"
                /\ proc[p].ret # 0
                /\ ~fs.data
                /\ fs.incs = "absent"
                /\ ~Announced(p)
        /\ proc[p].errAt = "data"
             => /\ proc[p].pc = "failed"
                /\ proc[p].retKind = "int"
                /\ proc[p].ret # 0
                /\ ~fs.data
                /\ fs.incs = "absent"

\* ---------------------------------------------------------------------
\* C17: when setup() has run to its end, the target is a directory, the
\* data directory exists and the increments directory exists, whatever
\* setup() found: no target, a target that is not a directory (with force),
\* no data directory, a data directory without increments, or a failed
\* initial backup.  In particular increments is created below a data
\* directory that was already there.
C17_SetupEstablishesLayout ==
    \A p \in Procs :
        proc[p].pc = "setup_done"
            => /\ fs.tgt = "dir"
               /\ fs.data
               /\ fs.incs # "absent"

C17_Witness ==
    /\ proc[1].pc = "setup_done"
    /\ proc[1].atSetup.data
    /\ proc[1].atSetup.markers # {}
    /\ proc[1].atSetup.incs = "absent"
    /\ fs.incs = "empty"

\* ---------------------------------------------------------------------
\* C18: when the delete of increments is refused with a security violation,
\* the repair logs a WARNING and returns: it never reaches the file
\* deletes and the data directory is as the repair found it.  setup() does
\* not fail because of it: it goes on to the increments step and, the
\* directory being there, to its end.
C18_RefusedRepairIsNotFatal ==
    \A p \in Procs :
        Refused(p) =>
            /\ proc[p].pc \notin {"fix_files", "failed"}
            /\ proc[p].errAt = "none"
            /\ proc[p].pc \in {"setup_incs", "setup_done"}
                 => DataTree(fs) = DataTree(proc[p].atFix)
            /\ "ERROR" \notin Severities(p)

C18_Witness ==
    /\ Refused(1)
    /\ proc[1].pc = "setup_done"
    /\ proc[1].atFix.errlogs = 1
    /\ fs.errlogs = 1
    /\ fs.incs = "empty"

\* ---------------------------------------------------------------------
\* The repair returned early: increments holds files, or its delete was
\* refused.
RepairAborted(p) ==
    \/ Refused(p)
    \/ <<"increments_contains_files", "INFO">> \in proc[p].log

\* C19: a repair that is not aborted deletes every entry of the data
\* directory that is not a directory (markers, error logs, metadata files
\* and other files) and no directory but increments: a sub-directory other
\* than increments is there after the repair exactly if it was there
\* before, at every step of the repair.
C19_RepairSparesOtherDirectories ==
    \A p \in Procs :
        /\ (RepairOver(p) /\ ~RepairAborted(p))
             => /\ NoLeftovers(fs)
                /\ fs.incs = "absent"
                /\ fs.data
        /\ (InRepair(p) /\ proc[p].pc \in SetupPcs)
             => /\ fs.stray = proc[p].atFix.stray
                /\ fs.data

C19_Witness ==
    /\ RepairOver(1)
    /\ ~RepairAborted(1)
    /\ proc[1].atFix.stray
    /\ proc[1].atFix.misc
    /\ proc[1].atFix.errlogs = 1
    /\ fs.stray
    /\ NoLeftovers(fs)

\* ---------------------------------------------------------------------
\* C20: a data directory that holds a current-mirror marker holds one ever
\* after, whatever the invocations that follow and wherever they are
\* killed: no step removes the last marker, the repair is never entered
\* while a marker is there, and no step of setup() deletes an entry of the
\* data directory or the increments directory.
C20_CompletedRepositoryNeverRepaired ==
    [][fs.markers # {} =>
          /\ fs'.markers # {}
          /\ \A p \in Procs :
                 /\ proc'[p].pc \notin {"fix", "fix_incs", "fix_files"}
                 /\ ~Announced(p)'
                 /\ proc[p].pc \in {"setup_target", "setup_data", "setup_incs"}
                      => /\ fs'.data
                         /\ fs'.markers = fs.markers
                         /\ fs'.errlogs = fs.errlogs
                         /\ fs'.metas = fs.metas
                         /\ fs'.misc = fs.misc
                         /\ fs'.stray = fs.stray
                         /\ fs.incs # "absent" => fs'.incs = fs.incs]_vars

\* setup() inspecting the data directory an incremental backup left when it
\* was killed between writing the new marker and removing the old one
C20_Witness ==
    /\ proc[1].pc = "setup_incs"
    /\ Cardinality(fs.markers) = 2
    /\ ~Announced(1)
    /\ fs.incs = "files"

============================================================================
